---- MODULE Spec2Model ----
(***************************************************************************)
(* Model of scripts/analyze-stl.py: the STL loader (binary and text), the  *)
(* geometric heuristics it feeds and the command-line entry point.         *)
(*                                                                         *)
(* A file is a sequence of bytes (0..255).  A str is a sequence of         *)
(* character codes.  A float is a fixed-point integer, Scale units per 1.0 *)
(* (exact for every multiple of 1/32 and every decimal of up to five       *)
(* places, which is what the inputs below are made of).                    *)
(***************************************************************************)
EXTENDS Integers, Sequences, FiniteSets, TLC

VARIABLES
    pc,          \* position of the run: "start", "detect", "read", "loaded", "exit", or a call site
    exists,      \* os.path.exists(path)
    file,        \* the bytes of the file at path
    fmt,         \* "ASCII" / "Binary" once detected, "" before
    triangles,   \* the list the loader returned
    uncaught,    \* name of the exception that ended the run, "none" otherwise
    stdout,      \* the lines / sections printed so far
    exitCode,    \* process exit status, -1 while running
    report,      \* the figures analyze() derives from the mesh
    call,        \* arguments of the function under study (function-level specifications)
    ret,         \* its return value
    origin       \* what was written to the file (the input's construction, never read by the program)

vars == <<pc, exists, file, fmt, triangles, uncaught, stdout, exitCode, report, call, ret, origin>>

----------------------------------------------------------------------------
(* Bounds of the explored inputs *)

MaxRecs == 2

MaxItems == 3

MaxMixed == 2

MaxVerts == 4

----------------------------------------------------------------------------
(* Numbers, bytes and strings *)

Scale == 400000

None == <<>>

Min(a, b) == IF a <= b THEN a ELSE b

Max(a, b) == IF a >= b THEN a ELSE b

Abs(a) == IF a < 0 THEN -a ELSE a

Range(s) == {s[i] : i \in 1..Len(s)}

RECURSIVE Pow2(_)
Pow2(n) == IF n = 0 THEN 1 ELSE 2 * Pow2(n - 1)

RECURSIVE Pow10(_)
Pow10(n) == IF n = 0 THEN 1 ELSE 10 * Pow10(n - 1)

RECURSIVE Concat(_)
Concat(ss) == IF ss = <<>> THEN <<>> ELSE Head(ss) \o Concat(Tail(ss))

Ord ==
    [c \in {"a","b","c","d","e","f","i","l","m","n","o","p","r","s","t","u","v","x",
            " ","-",".","0","1","2","3","4","5","6","7","8","9"} |->
        CASE c = "a" -> 97  [] c = "b" -> 98  [] c = "c" -> 99  [] c = "d" -> 100
          [] c = "e" -> 101 [] c = "f" -> 102 [] c = "i" -> 105 [] c = "l" -> 108
          [] c = "m" -> 109 [] c = "n" -> 110 [] c = "o" -> 111 [] c = "p" -> 112
          [] c = "r" -> 114 [] c = "s" -> 115 [] c = "t" -> 116 [] c = "u" -> 117
          [] c = "v" -> 118 [] c = "x" -> 120 [] c = " " -> 32  [] c = "-" -> 45
          [] c = "." -> 46  [] c = "0" -> 48  [] c = "1" -> 49  [] c = "2" -> 50
          [] c = "3" -> 51  [] c = "4" -> 52  [] c = "5" -> 53  [] c = "6" -> 54
          [] c = "7" -> 55  [] c = "8" -> 56  [] c = "9" -> 57]

Str(t) == [i \in 1..Len(t) |-> Ord[t[i]]]

NUL == 0

LF == 10

CR == 13

\* bytes.isspace(): what bytes.lstrip() removes
BytesWhitespace == {9, 10, 11, 12, 13, 32}

\* str.isspace() on code points below 128: what str.strip() and str.split() use
StrWhitespace == {9, 10, 11, 12, 13, 28, 29, 30, 31, 32}

KwSolid == Str(<<"s","o","l","i","d">>)

KwFacetNormal == Str(<<"f","a","c","e","t"," ","n","o","r","m","a","l">>)

KwVertex == Str(<<"v","e","r","t","e","x">>)

KwEndfacet == Str(<<"e","n","d","f","a","c","e","t">>)

\* f.read(n) at offset pos: at most n bytes, fewer at end of file
Read(f, pos, n) == SubSeq(f, pos + 1, Min(pos + n, Len(f)))

StartsWith(s, p) == Len(s) >= Len(p) /\ SubSeq(s, 1, Len(p)) = p

RECURSIVE LStrip(_, _)
LStrip(s, ws) ==
    IF s # <<>> /\ Head(s) \in ws THEN LStrip(Tail(s), ws) ELSE s

RECURSIVE RStrip(_, _)
RStrip(s, ws) ==
    IF s # <<>> /\ s[Len(s)] \in ws THEN RStrip(SubSeq(s, 1, Len(s) - 1), ws) ELSE s

Strip(s) == RStrip(LStrip(s, StrWhitespace), StrWhitespace)

\* str.split() with no argument: the maximal runs of non-whitespace
RECURSIVE SplitFrom(_, _, _)
SplitFrom(s, cur, acc) ==
    IF s = <<>> THEN (IF cur = <<>> THEN acc ELSE Append(acc, cur))
    ELSE IF Head(s) \in StrWhitespace
         THEN SplitFrom(Tail(s), <<>>, IF cur = <<>> THEN acc ELSE Append(acc, cur))
         ELSE SplitFrom(Tail(s), Append(cur, Head(s)), acc)

Split(s) == SplitFrom(s, <<>>, <<>>)

\* f.readlines() in text mode (universal newlines): "\n", "\r" and "\r\n" end a
\* line, and each line read ends in "\n"; a last line may lack it
ReadLines(f) ==
    LET ends   == {i \in 1..Len(f) :
                      \/ f[i] = LF
                      \/ f[i] = CR /\ (i = Len(f) \/ f[i + 1] # LF)}
        nth(k) == CHOOSE e \in ends : Cardinality({x \in ends : x < e}) = k - 1
        n      == Cardinality(ends)
        from(k) == IF k = 1 THEN 1 ELSE nth(k - 1) + 1
        body(k) == LET e == nth(k)
                       last == IF f[e] = LF /\ e > from(k) /\ f[e - 1] = CR
                               THEN e - 2 ELSE e - 1
                   IN  Append(SubSeq(f, from(k), last), LF)
        rest   == SubSeq(f, from(n + 1), Len(f))
    IN  [k \in 1..n |-> body(k)] \o (IF rest = <<>> THEN <<>> ELSE <<rest>>)

IsDigit(c) == c >= 48 /\ c <= 57

RECURSIVE DigitsVal(_, _)
DigitsVal(ds, acc) ==
    IF ds = <<>> THEN acc ELSE DigitsVal(Tail(ds), acc * 10 + (Head(ds) - 48))

\* value, in Scale units, of the digits after the decimal point
FracVal(ds) ==
    LET k == Min(Len(ds), 5)
    IN  DigitsVal(SubSeq(ds, 1, k), 0) * Pow10(5 - k) * (Scale \div 100000)

\* float(token) for plain decimal tokens [+-]digits[.digits]; anything else
\* the inputs here contain is a ValueError
ParseFloat(tok) ==
    LET signed == tok # <<>> /\ Head(tok) \in {43, 45}
        sgn    == IF tok # <<>> /\ Head(tok) = 45 THEN -1 ELSE 1
        body   == IF signed THEN Tail(tok) ELSE tok
        dots   == {i \in 1..Len(body) : body[i] = 46}
        dot    == IF dots = {} THEN Len(body) + 1
                  ELSE CHOOSE i \in dots : \A j \in dots : i <= j
        ip     == SubSeq(body, 1, dot - 1)
        fp     == SubSeq(body, dot + 1, Len(body))
        valid  == /\ \A i \in 1..Len(ip) : IsDigit(ip[i])
                  /\ \A i \in 1..Len(fp) : IsDigit(fp[i])
                  /\ Len(ip) + Len(fp) >= 1
    IN  IF valid
        THEN [ok |-> TRUE, val |-> sgn * (DigitsVal(ip, 0) * Scale + FracVal(fp))]
        ELSE [ok |-> FALSE, val |-> 0]

\* struct.unpack("<I", b): little-endian unsigned 32-bit
U32(b) == b[1] + 256 * b[2] + 65536 * b[3] + 16777216 * b[4]

\* struct.unpack("<f", b): IEEE-754 binary32, little-endian, as fixed point
F32(b) ==
    LET sign == b[4] \div 128
        e    == (b[4] % 128) * 2 + (b[3] \div 128)
        m    == (b[3] % 128) * 65536 + b[2] * 256 + b[1]
        sig  == 8388608 + m
        sh   == e - 145                 \* value * 32 = sig * 2^(e - 150 + 5)
        v32  == IF sh >= 0 THEN sig * Pow2(sh)
                ELSE IF sh < -24 THEN 0
                ELSE sig \div Pow2(-sh)
    IN  IF e = 255 THEN (IF m = 0 THEN "inf" ELSE "nan")
        ELSE IF e = 0 THEN 0
        ELSE (IF sign = 1 THEN -1 ELSE 1) * v32 * (Scale \div 32)

----------------------------------------------------------------------------
(* StlLoader *)

\* struct.unpack("<12fH", data): twelve floats, the attribute word dropped
Unpack12f(data) == [j \in 1..12 |-> F32(SubSeq(data, 4 * j - 3, 4 * j))]

RecordTriangle(data) ==
    LET vals == Unpack12f(data)
    IN  << <<vals[1], vals[2], vals[3]>>, <<vals[4], vals[5], vals[6]>>,
           <<vals[7], vals[8], vals[9]>>, <<vals[10], vals[11], vals[12]>> >>

RECURSIVE BinaryLoop(_, _, _, _)
BinaryLoop(f, i, num_tri, acc) ==
    IF i >= num_tri THEN acc
    ELSE LET data == Read(f, 84 + 50 * i, 50)
         IN  IF Len(data) < 50 THEN acc
             ELSE BinaryLoop(f, i + 1, num_tri, Append(acc, RecordTriangle(data)))

\* read_binary_stl reading records until the file ends, whatever the count says
read_binary_stl_ignoring_count(f) ==
    LET header == Read(f, 0, 80)
        cnt    == Read(f, 80, 4)
    IN  IF Len(cnt) < 4
        THEN [err |-> "struct.error", header |-> header, triangles |-> <<>>]
        ELSE [err |-> "none", header |-> header,
              triangles |-> BinaryLoop(f, 0, Len(f), <<>>)]

read_binary_stl(f) ==
    LET header == Read(f, 0, 80)
        cnt    == Read(f, 80, 4)
    IN  IF Len(cnt) < 4
        THEN [err |-> "struct.error", header |-> header, triangles |-> <<>>]
        ELSE [err |-> "none", header |-> header,
              triangles |-> BinaryLoop(f, 0, U32(cnt), <<>>)]

\* is_ascii_stl without the null-byte test
is_ascii_stl_marker_only(f) ==
    StartsWith(LStrip(Read(f, 0, 80), BytesWhitespace), KwSolid)

is_ascii_stl(f) ==
    LET start == LStrip(Read(f, 0, 80), BytesWhitespace)
    IN  StartsWith(start, KwSolid) /\ NUL \notin Range(start)

\* floats of parts[from+1 .. from+3] (0-based from), or the exception raised
Floats3(parts, from) ==
    IF Len(parts) < from + 3 THEN [err |-> "IndexError", val |-> None]
    ELSE LET a == ParseFloat(parts[from + 1])
             b == ParseFloat(parts[from + 2])
             c == ParseFloat(parts[from + 3])
         IN  IF a.ok /\ b.ok /\ c.ok
             THEN [err |-> "none", val |-> <<a.val, b.val, c.val>>]
             ELSE [err |-> "ValueError", val |-> None]

\* AsciiLine accepting a facet once it has three vertices or more
AsciiLine_at_least_3(st, raw) ==
    LET line == Strip(raw)
    IN  IF StartsWith(line, KwFacetNormal)
        THEN LET r == Floats3(Split(line), 2)
             IN  IF r.err # "none" THEN [st EXCEPT !.err = r.err]
                 ELSE [st EXCEPT !.normal = r.val, !.verts = <<>>]
        ELSE IF StartsWith(line, KwVertex)
        THEN LET r == Floats3(Split(line), 1)
             IN  IF r.err # "none" THEN [st EXCEPT !.err = r.err]
                 ELSE [st EXCEPT !.verts = Append(st.verts, r.val)]
        ELSE IF StartsWith(line, KwEndfacet) /\ st.normal # None /\ Len(st.verts) >= 3
        THEN [st EXCEPT !.triangles =
                 Append(st.triangles, <<st.normal, st.verts[1], st.verts[2], st.verts[3]>>)]
        ELSE st

\* one iteration of "for line in lines" on the loop state st
AsciiLine(st, raw) ==
    LET line == Strip(raw)
    IN  IF StartsWith(line, KwFacetNormal)
        THEN LET r == Floats3(Split(line), 2)
             IN  IF r.err # "none" THEN [st EXCEPT !.err = r.err]
                 ELSE [st EXCEPT !.normal = r.val, !.verts = <<>>]
        ELSE IF StartsWith(line, KwVertex)
        THEN LET r == Floats3(Split(line), 1)
             IN  IF r.err # "none" THEN [st EXCEPT !.err = r.err]
                 ELSE [st EXCEPT !.verts = Append(st.verts, r.val)]
        ELSE IF StartsWith(line, KwEndfacet) /\ st.normal # None /\ Len(st.verts) = 3
        THEN [st EXCEPT !.triangles =
                 Append(st.triangles, <<st.normal, st.verts[1], st.verts[2], st.verts[3]>>)]
        ELSE st

RECURSIVE AsciiLoop(_, _)
AsciiLoop(st, lines) ==
    IF lines = <<>> \/ st.err # "none" THEN st
    ELSE AsciiLoop(AsciiLine(st, Head(lines)), Tail(lines))

read_ascii_stl(f) ==
    LET lines == ReadLines(f)
        st    == AsciiLoop([err |-> "none", normal |-> None, verts |-> <<>>,
                            triangles |-> <<>>], lines)
    IN  [err |-> st.err,
         header |-> IF lines # <<>> THEN Strip(lines[1]) ELSE <<>>,
         triangles |-> IF st.err = "none" THEN st.triangles ELSE <<>>]

----------------------------------------------------------------------------
(* GeometryMetrics and ReportGenerator *)

NzFlat == (9 * Scale) \div 10

NzVertical == Scale \div 10

\* the if/elif chain on tri[0][2]
NormalClass(nz) ==
    IF nz > NzFlat THEN "top"
    ELSE IF nz < -NzFlat THEN "bottom"
    ELSE IF Abs(nz) < NzVertical THEN "vertical"
    ELSE "angled"

\* the chain with "if" in place of the second "elif": a flat face falls through
\* to the vertical/angled test as well
RECURSIVE CountNormals_if_for_elif(_, _)
CountNormals_if_for_elif(tris, acc) ==
    IF tris = <<>> THEN acc
    ELSE LET nz == Head(tris)[1][3]
             a1 == IF nz > NzFlat THEN [acc EXCEPT !["top"] = @ + 1]
                   ELSE IF nz < -NzFlat THEN [acc EXCEPT !["bottom"] = @ + 1]
                   ELSE acc
             a2 == IF Abs(nz) < NzVertical THEN [a1 EXCEPT !["vertical"] = @ + 1]
                   ELSE [a1 EXCEPT !["angled"] = @ + 1]
         IN  CountNormals_if_for_elif(Tail(tris), a2)

RECURSIVE CountNormals(_, _)
CountNormals(tris, acc) ==
    IF tris = <<>> THEN acc
    ELSE LET c == NormalClass(Head(tris)[1][3])
         IN  CountNormals(Tail(tris), [acc EXCEPT ![c] = @ + 1])

NormalCounts(tris) ==
    CountNormals(tris, [c \in {"top", "bottom", "vertical", "angled"} |-> 0])

\* k / n * 100, in Scale units
Percent(k, n) == (k * 100 * Scale) \div n

SimpleFaces == 500

ComplexFaces == 1000

FlatPct == 80

CurvePct == 30

ReduceFaces == 50000

\* the recommendation with the polyhedron test ahead of the manual one
Recommend_polyhedron_first(n, flat_vertical_pct, curve_pct) ==
    IF n > ComplexFaces \/ curve_pct > CurvePct * Scale THEN "polyhedron"
    ELSE IF n < SimpleFaces /\ flat_vertical_pct > FlatPct * Scale THEN "manual parametric"
    ELSE "sliced cross-section"

\* the recommendation block: which of the three branches prints
Recommend(n, flat_vertical_pct, curve_pct) ==
    IF n < SimpleFaces /\ flat_vertical_pct > FlatPct * Scale THEN "manual parametric"
    ELSE IF n > ComplexFaces \/ curve_pct > CurvePct * Scale THEN "polyhedron"
    ELSE "sliced cross-section"

----------------------------------------------------------------------------
(* CrossSectionAnalyzer and PocketDetector *)

SetMin(S) == CHOOSE a \in S : \A b \in S : a <= b

SetMax(S) == CHOOSE a \in S : \A b \in S : a >= b

\* sorted(set(xs)): the distinct values, ascending
SortedSet(S) ==
    [k \in 1..Cardinality(S) |-> CHOOSE a \in S : Cardinality({b \in S : b < a}) = k - 1]

\* int(x / g): the quotient truncated towards zero
IntDiv(x, g) == IF x >= 0 THEN x \div g ELSE -((-x) \div g)

\* z * f for a fraction f given in hundredths
Times(z, hundredths) == (z * hundredths) \div 100

\* [v for v in all_verts if abs(v[2] - z) < tol]
InSlab(all_verts, z, tol) ==
    SelectSeq(all_verts, LAMBDA v : Abs(v[3] - z) < tol)

SliceTolerance == Scale \div 4

SliceMinPoints == 10

\* analyze_slice refusing a slab of exactly ten points as well
analyze_slice_needs_11(all_verts, target_z, tolerance) ==
    LET verts == InSlab(all_verts, target_z, tolerance)
        sx    == {verts[i][1] : i \in 1..Len(verts)}
        sy    == {verts[i][2] : i \in 1..Len(verts)}
    IN  IF Len(verts) <= SliceMinPoints THEN None
        ELSE [verts |-> Len(verts),
              x_range |-> <<SetMin(sx), SetMax(sx)>>,
              y_range |-> <<SetMin(sy), SetMax(sy)>>,
              width |-> SetMax(sx) - SetMin(sx),
              height |-> SetMax(sy) - SetMin(sy)]

\* analyze_slice: None ("insufficient data") or the extents of the slab's points
\* (the radial statistics behind the shape label are not carried)
analyze_slice(all_verts, target_z, tolerance) ==
    LET verts == InSlab(all_verts, target_z, tolerance)
        sx    == {verts[i][1] : i \in 1..Len(verts)}
        sy    == {verts[i][2] : i \in 1..Len(verts)}
    IN  IF Len(verts) < SliceMinPoints THEN None
        ELSE [verts |-> Len(verts),
              x_range |-> <<SetMin(sx), SetMax(sx)>>,
              y_range |-> <<SetMin(sy), SetMax(sy)>>,
              width |-> SetMax(sx) - SetMin(sx),
              height |-> SetMax(sy) - SetMin(sy)]

PocketTolerance == (3 * Scale) \div 10

GridSize == 2 * Scale

PocketMinPoints == 10

DenseHits == 3

EnclosingNeighbors == 4

\* the dict built by the accumulation loop: cell -> number of points in it
Grid(verts_2d, grid_size) ==
    LET cell(i) == <<IntDiv(verts_2d[i][1], grid_size), IntDiv(verts_2d[i][2], grid_size)>>
        cells   == {cell(i) : i \in 1..Len(verts_2d)}
    IN  [c \in cells |-> Cardinality({i \in 1..Len(verts_2d) : cell(i) = c})]

\* the neighbour count of a cell that counts the four edge neighbours only
DenseNeighbors_edges_only(grid, gx, gy) ==
    Cardinality({d \in {<<-1, 0>>, <<1, 0>>, <<0, -1>>, <<0, 1>>} :
        /\ <<gx + d[1], gy + d[2]>> \in DOMAIN grid
        /\ grid[<<gx + d[1], gy + d[2]>>] >= DenseHits})

\* sum(1 for dx in [-1,0,1] for dy in [-1,0,1] if the cell there holds >= 3 hits)
DenseNeighbors(grid, gx, gy) ==
    Cardinality({d \in {-1, 0, 1} \X {-1, 0, 1} :
        /\ <<gx + d[1], gy + d[2]>> \in DOMAIN grid
        /\ grid[<<gx + d[1], gy + d[2]>>] >= DenseHits})

\* the scan taking only cells that hold no point at all as empty
EmptyInterior_absent_only(grid) ==
    LET all_gx == {c[1] : c \in DOMAIN grid}
        all_gy == {c[2] : c \in DOMAIN grid}
    IN  IF all_gx = {} THEN {}
        ELSE {c \in (SetMin(all_gx)..SetMax(all_gx)) \X (SetMin(all_gy)..SetMax(all_gy)) :
                 /\ c \notin DOMAIN grid
                 /\ DenseNeighbors(grid, c[1], c[2]) >= EnclosingNeighbors}

\* the cells appended to empty_interior
EmptyInterior(grid) ==
    LET all_gx == {c[1] : c \in DOMAIN grid}
        all_gy == {c[2] : c \in DOMAIN grid}
    IN  IF all_gx = {} THEN {}
        ELSE {c \in (SetMin(all_gx)..SetMax(all_gx)) \X (SetMin(all_gy)..SetMax(all_gy)) :
                 /\ c \notin DOMAIN grid \/ grid[c] < DenseHits
                 /\ DenseNeighbors(grid, c[1], c[2]) >= EnclosingNeighbors}

detect_pockets(all_verts, min_x, min_y, z_target, tol, grid_size) ==
    LET slab    == InSlab(all_verts, z_target, tol)
        verts_2d == [i \in 1..Len(slab) |-> <<slab[i][1] - min_x, slab[i][2] - min_y>>]
        interior == EmptyInterior(Grid(verts_2d, grid_size))
        ex == {c[1] * grid_size + grid_size \div 2 : c \in interior}
        ey == {c[2] * grid_size + grid_size \div 2 : c \in interior}
    IN  IF Len(verts_2d) < PocketMinPoints THEN None
        ELSE IF interior = {} THEN None
        ELSE [count |-> Cardinality(interior),
              x_range |-> <<SetMin(ex), SetMax(ex)>>,
              y_range |-> <<SetMin(ey), SetMax(ey)>>,
              width |-> SetMax(ex) - SetMin(ex),
              height |-> SetMax(ey) - SetMin(ey)]

----------------------------------------------------------------------------
(* AsciiRenderer *)

AsciiGridRes == 2 * Scale

AsciiMinPoints == 10

\* ascii_cross_section: the label's height and the printed rows, highest y
\* first, each row its y value and its cells ("#" or " ")
ascii_cross_section(verts_2d, width, height, grid_res, label) ==
    IF verts_2d = <<>> THEN <<>>
    ELSE LET min_x == SetMin({verts_2d[i][1] : i \in 1..Len(verts_2d)})
             min_y == SetMin({verts_2d[i][2] : i \in 1..Len(verts_2d)})
             cols  == IntDiv(width, grid_res) + 2
             rows  == IntDiv(height, grid_res) + 2
             marked == {<<IntDiv(verts_2d[i][2] - min_y, grid_res),
                          IntDiv(verts_2d[i][1] - min_x, grid_res)>> : i \in 1..Len(verts_2d)}
                          \cap ((0..(rows - 1)) \X (0..(cols - 1)))
             shown == SortedSet({rc[1] : rc \in marked})
         IN  <<label>> \o
             [k \in 1..Len(shown) |->
                 LET r == shown[Len(shown) + 1 - k]
                 IN  <<min_y + r * grid_res,
                       [c \in 1..cols |-> IF <<r, c - 1>> \in marked THEN "#" ELSE " "]>>]

\* the loop over ascii_z_levels: what is printed for each level that has
\* ten points or more within the adaptive tolerance, in the order printed
AsciiSections(all_verts, min_z, max_z, w, h) ==
    LET z_range == max_z - min_z
        levels  == <<min_z + Scale \div 5, min_z + (z_range * 25) \div 100,
                     min_z + (z_range * 50) \div 100, min_z + (z_range * 75) \div 100,
                     max_z - Scale \div 5>>
        tol     == Max(Scale \div 4, (z_range * 3) \div 100)
        pts(z)  == LET slab == SelectSeq(all_verts, LAMBDA v : Abs(v[3] - z) < tol)
                   IN  [i \in 1..Len(slab) |-> <<slab[i][1], slab[i][2]>>]
        kept    == SelectSeq(levels, LAMBDA z : Len(pts(z)) >= AsciiMinPoints)
    IN  [i \in 1..Len(kept) |-> ascii_cross_section(pts(kept[i]), w, h, AsciiGridRes, kept[i])]

----------------------------------------------------------------------------
(* SurfaceDetector *)

\* the nearest integer to num / den (den > 0), a tie going to the even one
RoundHalfEven(num, den) ==
    LET q == num \div den
        r == num % den
    IN  IF 2 * r < den THEN q
        ELSE IF 2 * r > den THEN q + 1
        ELSE IF q % 2 = 0 THEN q ELSE q + 1

\* round(total / parts, 1): to the nearest tenth, exact for binary fractions
Round1(total, parts) == RoundHalfEven(10 * total, parts * Scale) * (Scale \div 10)

\* detect_surfaces: for the top-facing and for the bottom-facing triangles,
\* the number of triangles at each rounded centroid height (min_y enters
\* avg_y only, which nothing reads)
detect_surfaces(tris, min_y) ==
    LET avg_z(i) == Round1(tris[i][2][3] + tris[i][3][3] + tris[i][4][3], 3)
        tops == {i \in 1..Len(tris) : tris[i][1][3] > NzFlat}
        bots == {i \in 1..Len(tris) : ~(tris[i][1][3] > NzFlat) /\ tris[i][1][3] < -NzFlat}
        groups(S) == [z \in {avg_z(i) : i \in S} |-> Cardinality({i \in S : avg_z(i) = z})]
    IN  [top_faces |-> groups(tops), bot_faces |-> groups(bots)]

SurfaceMinFaces == 5

\* "for z in sorted(faces.keys()): if count > 5: print": the lines of a
\* floor or ceiling section, each a height and a face count
SurfaceLines(faces) ==
    LET keys == SortedSet(DOMAIN faces)
        rows == [k \in 1..Len(keys) |-> <<keys[k], faces[keys[k]]>>]
    IN  SelectSeq(rows, LAMBDA row : row[2] > SurfaceMinFaces)

\* [v for t in triangles for v in t[1:]]
AllVerts(tris) == Concat([i \in 1..Len(tris) |-> <<tris[i][2], tris[i][3], tris[i][4]>>])

Coord(all_verts, axis) == {all_verts[i][axis] : i \in 1..Len(all_verts)}

\* the heights of the cross-section table, as fractions of the height range
SliceFractions == {0, 10, 25, 50, 75, 90, 100}

\* the heights of the pocket scan
PocketFractions == <<10, 20, 30, 40, 50, 60, 70, 80, 90>>

\* the figures analyze() derives once the mesh is known to be non-empty (the
\* Z histogram is printed but not carried here)
Analyze(tris) ==
    LET n  == Len(tris)
        nc == NormalCounts(tris)
        all_verts == AllVerts(tris)
        min_x == SetMin(Coord(all_verts, 1))
        min_y == SetMin(Coord(all_verts, 2))
        min_z == SetMin(Coord(all_verts, 3))
        max_z == SetMax(Coord(all_verts, 3))
        z_range == max_z - min_z
        z_levels == SortedSet({IF f = 100 THEN max_z ELSE min_z + Times(z_range, f) :
                                  f \in SliceFractions})
        flat_vertical_pct == Percent(nc["top"] + nc["bottom"] + nc["vertical"], n)
        curve_pct         == Percent(nc["angled"], n)
    IN  [n |-> n, top |-> nc["top"], bottom |-> nc["bottom"],
         vertical |-> nc["vertical"], angled |-> nc["angled"],
         width |-> SetMax(Coord(all_verts, 1)) - min_x,
         height |-> SetMax(Coord(all_verts, 2)) - min_y,
         ascii |-> AsciiSections(all_verts, min_z, max_z,
                                 SetMax(Coord(all_verts, 1)) - min_x,
                                 SetMax(Coord(all_verts, 2)) - min_y),
         depth |-> z_range,
         floors |-> SurfaceLines(detect_surfaces(tris, min_y).top_faces),
         ceilings |-> SurfaceLines(detect_surfaces(tris, min_y).bot_faces),
         slices |-> [i \in 1..Len(z_levels) |->
                        <<z_levels[i], analyze_slice(all_verts, z_levels[i], SliceTolerance)>>],
         pockets |-> [i \in 1..Len(PocketFractions) |->
                        LET z_target == min_z + Times(z_range, PocketFractions[i])
                        IN  <<z_target, detect_pockets(all_verts, min_x, min_y, z_target,
                                                       PocketTolerance, GridSize)>>],
         flat_vertical_pct |-> flat_vertical_pct, curve_pct |-> curve_pct,
         recommendation |-> Recommend(n, flat_vertical_pct, curve_pct)]

ReportSections ==
    <<"File", "Bounding box", "Face normals", "Z-level distribution",
      "Cross-section analysis", "ASCII cross-sections", "Floor surfaces",
      "Ceiling surfaces", "Pocket/void detection", "Recommended reconstruction">>

----------------------------------------------------------------------------
(* Input files *)

\* struct.pack("<f", v) for a fixed-point v that binary32 holds exactly
RECURSIVE Normalise(_, _)
Normalise(a, e) == IF a >= 8388608 THEN <<a, e>> ELSE Normalise(2 * a, e - 1)

F32Bytes(v) ==
    IF v = 0 THEN <<0, 0, 0, 0>>
    ELSE LET ne   == Normalise(Abs(v) \div (Scale \div 32), 145)
             m    == ne[1] - 8388608
             e    == ne[2]
             sign == IF v < 0 THEN 1 ELSE 0
         IN  <<m % 256, (m \div 256) % 256, (m \div 65536) + 128 * (e % 2),
               128 * sign + e \div 2>>

U32Bytes(n) == <<n % 256, (n \div 256) % 256, (n \div 65536) % 256, n \div 16777216>>

Fill(b, n) == [i \in 1..n |-> b]

\* a 50-byte triangle record: normal, v1, v2, v3 and a zero attribute word
RecordBytes(t) ==
    Concat([j \in 1..12 |-> F32Bytes(t[((j - 1) \div 3) + 1][((j - 1) % 3) + 1])])
        \o <<0, 0>>

F(whole, frac32) == whole * Scale + frac32 * (Scale \div 32)

TrianglePool ==
    { << <<0, 0, F(1, 0)>>,  <<0, 0, 0>>, <<F(1, 0), 0, 0>>, <<0, F(1, 0), 0>> >>,
      << <<0, 0, -F(1, 0)>>, <<0, 0, F(2, 16)>>, <<F(1, 0), 0, F(2, 16)>>, <<0, F(1, 0), F(2, 16)>> >>,
      << <<F(1, 0), 0, F(0, 3)>>, <<0, 0, 0>>, <<0, F(4, 0), 0>>, <<0, 0, F(2, 16)>> >>,
      << <<0, F(0, 16), F(0, 29)>>, <<-F(1, 8), 0, 0>>, <<F(10, 0), 0, 0>>, <<0, 0, F(0, 1)>> >>,
      << <<0, -F(0, 16), F(0, 16)>>, <<0, 0, 0>>, <<F(1, 0), F(1, 0), F(1, 0)>>, <<0, F(2, 0), F(2, 0)>> >> }

SeqsUpTo(S, n) == UNION {[1..k -> S] : k \in 0..n}

HugeCount == 2147483646 + 1

Headers == { Fill(NUL, 80), KwSolid \o <<NUL>> \o Fill(32, 74) }

\* header, count field, complete records, then tail bytes of a cut-off record
BinaryFile(h, count, recs, tail) ==
    h \o U32Bytes(count) \o Concat([i \in 1..Len(recs) |-> RecordBytes(recs[i])])
      \o Fill(63, tail)

BinaryOrigins ==
    { [kind |-> "binary", header |-> h, count |-> c, recs |-> r, tail |-> t] :
        h \in Headers, c \in (0..(MaxRecs + 1)) \cup {HugeCount},
        r \in SeqsUpTo(TrianglePool, MaxRecs), t \in {0, 1, 49} }

MaxBulk == 4

\* a mesh of n copies of one triangle, enough vertices to fill a slab
BulkOrigins ==
    { [kind |-> "binary", header |-> Fill(NUL, 80), count |-> n,
       recs |-> [i \in 1..n |-> t], tail |-> 0] :
        n \in 4..MaxBulk, t \in TrianglePool }

MaxLayer == 6

\* a triangle moved up by dz
Lift(t, dz) ==
    <<t[1], <<t[2][1], t[2][2], t[2][3] + dz>>, <<t[3][1], t[3][2], t[3][3] + dz>>,
      <<t[4][1], t[4][2], t[4][3] + dz>> >>

\* the pool's triangles that lie in one horizontal plane
LevelTriangles == {t \in TrianglePool : t[2][3] = t[3][3] /\ t[3][3] = t[4][3]}

LayerGaps == {F(0, 8), F(0, 16), F(1, 0), F(3, 0)}

\* two flat layers of n faces each, gap apart, the upper one first in the file
LayerOrigins ==
    { [kind |-> "binary", header |-> Fill(NUL, 80), count |-> 2 * n,
       recs |-> [i \in 1..(2 * n) |-> IF i <= n THEN Lift(t, g) ELSE t], tail |-> 0] :
        n \in 5..MaxLayer, t \in LevelTriangles, g \in LayerGaps }

\* eight triangles, each collapsed onto the corner of one cell of a 3 x 3
\* block of 2.0-wide cells, none in the centre cell, all at height z
HollowSquare(z) ==
    LET cells == SelectSeq([i \in 1..9 |-> <<(i - 1) % 3, (i - 1) \div 3>>],
                           LAMBDA c : c # <<1, 1>>)
        at(c) == <<F(2 * c[1], 0), F(2 * c[2], 0), z>>
    IN  [i \in 1..Len(cells) |-> <<<<0, 0, 0>>, at(cells[i]), at(cells[i]), at(cells[i])>>]

HollowGaps == {0, F(0, 16), F(2, 0)}

\* a hollow square, or two of them gap apart, the upper one first in the file
HollowOrigins ==
    { [kind |-> "binary", header |-> Fill(NUL, 80),
       count |-> Len(recs), recs |-> recs, tail |-> 0] :
        recs \in { IF g = 0 THEN HollowSquare(0) ELSE HollowSquare(g) \o HollowSquare(0) :
                      g \in HollowGaps } }

\* a file of fewer than 84 bytes: what is left of a binary file cut in its header
ShortOrigins ==
    { [kind |-> "short", header |-> h, count |-> 1, len |-> l] :
        h \in Headers, l \in {0, 1, 79, 80, 81, 83} }

\* the lines of a text STL, each ended by "\n"
JoinLines(ls) == Concat([i \in 1..Len(ls) |-> Append(ls[i], LF)])

LnSolid == Str(<<"s","o","l","i","d"," ","m">>)

LnEndsolid == Str(<<"e","n","d","s","o","l","i","d"," ","m">>)

LnOuterLoop == Str(<<" "," ","o","u","t","e","r"," ","l","o","o","p">>)

LnEndloop == Str(<<" "," ","e","n","d","l","o","o","p">>)

LnEndfacet == Str(<<"e","n","d","f","a","c","e","t">>)

LnBadVertex == Str(<<"v","e","r","t","e","x"," ","1"," ","x"," ","0">>)

\* the normal a facet line of kind nrm carries, as text and as value
NormalText(nrm) ==
    IF nrm = "A" THEN Str(<<"0"," ","0"," ","1">>)
    ELSE Str(<<"0"," ","-","1",".","0"," ","0",".","2","5">>)

NormalValue(nrm) == IF nrm = "A" THEN <<0, 0, Scale>> ELSE <<0, -Scale, Scale \div 4>>

LnFacetNormal(nrm) == KwFacetNormal \o <<32>> \o NormalText(nrm)

\* the i-th vertex line of a facet, "    vertex i 0 0.5", and its value
LnVertex(i) ==
    Fill(32, 4) \o KwVertex \o <<32, 48 + i, 32>> \o Str(<<"0"," ","0",".","5">>)

VertexValue(i) == <<i * Scale, 0, Scale \div 2>>

\* a facet block with k vertex lines
FacetLines(nrm, k) ==
    <<LnFacetNormal(nrm), LnOuterLoop>> \o [i \in 1..k |-> LnVertex(i)]
        \o <<LnEndloop, LnEndfacet>>

FacetItems ==
    {[t |-> "facet", nrm |-> "A", k |-> k] : k \in 0..MaxVerts}
        \cup {[t |-> "facet", nrm |-> "B", k |-> 3]}

StrayItems ==
    {[t |-> "line", nrm |-> "", k |-> j] : j \in 1..4}

ItemLines(it) ==
    IF it.t = "facet" THEN FacetLines(it.nrm, it.k)
    ELSE CASE it.k = 1 -> <<LnEndfacet>>
           [] it.k = 2 -> <<LnVertex(7)>>
           [] it.k = 3 -> <<LnFacetNormal("B")>>
           [] OTHER    -> <<LnBadVertex>>

TextFile(items) ==
    JoinLines(<<LnSolid>> \o Concat([i \in 1..Len(items) |-> ItemLines(items[i])])
                  \o <<LnEndsolid>>)

TextOrigins ==
    { [kind |-> "text", items |-> its] :
        its \in SeqsUpTo(FacetItems, MaxItems)
                   \cup SeqsUpTo(FacetItems \cup StrayItems, MaxMixed) }

\* short files that probe the format test: leading bytes, a marker, a rest
ProbeOrigins ==
    { [kind |-> "probe", lead |-> l, word |-> w, rest |-> r] :
        l \in {<<>>, <<32, LF, 9>>, <<28>>, Fill(32, 75), Fill(32, 76)},
        w \in {KwSolid, SubSeq(KwSolid, 1, 4), <<120>> \o KwSolid},
        r \in {<<>>, <<NUL>>, <<32, 109, LF>>, Fill(32, 60) \o <<NUL>>,
               Fill(32, 80) \o <<NUL>>} }

FileOf(o) ==
    CASE o.kind = "binary" -> BinaryFile(o.header, o.count, o.recs, o.tail)
      [] o.kind = "short"  -> SubSeq(o.header \o U32Bytes(o.count), 1, o.len)
      [] o.kind = "text"   -> TextFile(o.items)
      [] o.kind = "probe"  -> o.lead \o o.word \o o.rest
      [] OTHER -> <<>>

----------------------------------------------------------------------------
(* The command-line run *)

Init ==
    /\ origin \in BinaryOrigins \cup BulkOrigins \cup LayerOrigins \cup HollowOrigins
                   \cup ShortOrigins \cup TextOrigins
                   \cup ProbeOrigins
                   \cup {[kind |-> "missing"]}
    /\ exists = (origin.kind # "missing")
    /\ file = FileOf(origin)
    /\ pc = "start"
    /\ fmt = ""
    /\ triangles = <<>>
    /\ uncaught = "none"
    /\ stdout = <<>>
    /\ exitCode = -1
    /\ report = None
    /\ call = None
    /\ ret = None

\* __main__: the existence check before analyze(path)
Main ==
    /\ pc = "start"
    /\ IF ~exists
       THEN /\ stdout' = Append(stdout, "Error: File not found")
            /\ exitCode' = 1
            /\ pc' = "exit"
       ELSE /\ pc' = "detect"
            /\ UNCHANGED <<stdout, exitCode>>
    /\ UNCHANGED <<exists, file, fmt, triangles, uncaught, report, call, ret, origin>>

\* analyze: the format test
Detect ==
    /\ pc = "detect"
    /\ fmt' = IF is_ascii_stl(file) THEN "ASCII" ELSE "Binary"
    /\ pc' = "read"
    /\ UNCHANGED <<exists, file, triangles, uncaught, stdout, exitCode, report, call, ret, origin>>

\* the loader's result, or the exception it raised, which nothing catches
Loaded(r) ==
    IF r.err # "none"
    THEN /\ uncaught' = r.err
         /\ exitCode' = 1
         /\ pc' = "exit"
         /\ UNCHANGED triangles
    ELSE /\ triangles' = r.triangles
         /\ pc' = "loaded"
         /\ UNCHANGED <<uncaught, exitCode>>

ReadAscii ==
    /\ pc = "read"
    /\ fmt = "ASCII"
    /\ Loaded(read_ascii_stl(file))
    /\ UNCHANGED <<exists, file, fmt, stdout, report, call, ret, origin>>

ReadBinary ==
    /\ pc = "read"
    /\ fmt = "Binary"
    /\ Loaded(read_binary_stl(file))
    /\ UNCHANGED <<exists, file, fmt, stdout, report, call, ret, origin>>

\* "if not triangles": one line, then analyze returns and the process ends normally
NoTriangles ==
    /\ pc = "loaded"
    /\ triangles = <<>>
    /\ stdout' = Append(stdout, "Error: No triangles found in file.")
    /\ exitCode' = 0
    /\ pc' = "exit"
    /\ UNCHANGED <<exists, file, fmt, triangles, uncaught, report, call, ret, origin>>

\* the rest of analyze: every section of the report, in order
Report ==
    /\ pc = "loaded"
    /\ triangles # <<>>
    /\ report' = Analyze(triangles)
    /\ stdout' = stdout \o ReportSections
    /\ exitCode' = 0
    /\ pc' = "exit"
    /\ UNCHANGED <<exists, file, fmt, triangles, uncaught, call, ret, origin>>

Next == Main \/ Detect \/ ReadAscii \/ ReadBinary \/ NoTriangles \/ Report

Spec == Init /\ [][Next]_vars

----------------------------------------------------------------------------
(* Claims about the command-line run *)

Finished == pc = "exit"

Parsed == pc \in {"loaded", "exit"} /\ fmt # "" /\ uncaught = "none" /\ exists

\* C1: a run whose loader returned ends with exit code 1 and a message exactly
\* when the path does not exist or the parsed mesh has no triangle, and with
\* exit code 0 otherwise.
C1_ExitCodeByOutcome ==
    (Finished /\ uncaught = "none") =>
        IF ~exists \/ triangles = <<>>
        THEN exitCode = 1 /\ stdout # <<>>
        ELSE exitCode = 0

\* C2: a run on an existing file classified as binary ends either with one
\* diagnostic line and nothing else, or with the complete report; no other
\* ending (such as an uncaught exception) occurs, whatever the file's length.
C2_BinaryRunEndsCleanly ==
    (Finished /\ fmt = "Binary") =>
        /\ uncaught = "none"
        /\ \/ Len(stdout) = 1
           \/ stdout = ReportSections

\* the first 80 bytes are: whitespace bytes, then "solid", and hold no null byte
LooksLikeText(f) ==
    LET w == SubSeq(f, 1, Min(80, Len(f)))
    IN  /\ \E k \in 0..Len(w) :
              /\ \A i \in 1..k : w[i] \in {9, 10, 11, 12, 13, 32}
              /\ k + 5 <= Len(w)
              /\ <<w[k + 1], w[k + 2], w[k + 3], w[k + 4], w[k + 5]>> = KwSolid
        /\ \A i \in 1..Len(w) : w[i] # 0

\* the triangles written to a binary file that the count and the file's end let through
Written(o) == SubSeq(o.recs, 1, Min(o.count, Len(o.recs)))

\* C3: the file is treated as text exactly when its first 80 bytes, leading
\* whitespace stripped, begin with "solid" and hold no null byte; every other
\* file is binary, and a file whose header begins "solid\0" is read by the
\* binary reader.
C3_FormatDetection ==
    /\ fmt # "" => (fmt = "ASCII" <=> LooksLikeText(file))
    /\ (Parsed /\ origin.kind = "binary" /\ StartsWith(file, KwSolid \o <<NUL>>)) =>
           fmt = "Binary" /\ triangles = Written(origin)

C3_Witness ==
    /\ Finished
    /\ origin.kind = "binary"
    /\ StartsWith(file, KwSolid \o <<NUL>>)
    /\ fmt = "Binary"
    /\ triangles # <<>>

\* C4: from a binary file with an 80-byte header, count C and R complete
\* records (and possibly a cut-off record after them) the reader returns the
\* first min(C, R) triangles written, in order and value for value, without error.
C4_BinaryReadCount ==
    (origin.kind = "binary" /\ pc \in {"loaded", "exit"}) =>
        /\ uncaught = "none"
        /\ fmt = "Binary"
        /\ triangles = Written(origin)

C4_Witness ==
    /\ origin.kind = "binary"
    /\ pc = "loaded"
    /\ origin.tail = 49
    /\ origin.count > Len(origin.recs)
    /\ Len(triangles) = 2
    /\ triangles[1] # triangles[2]

AllFacets(o) == \A i \in 1..Len(o.items) : o.items[i].t = "facet"

FacetValue(it) == <<NormalValue(it.nrm), VertexValue(1), VertexValue(2), VertexValue(3)>>

IsComplete(it) == it.k = 3

\* the triangles of the facet blocks that have exactly three vertex lines
CompleteFacets(items) ==
    LET kept == SelectSeq(items, IsComplete)
    IN  [i \in 1..Len(kept) |-> FacetValue(kept[i])]

\* C5: in a text file made of facet blocks, a block whose number of vertex
\* lines is not 3 adds no triangle and raises nothing, and the result is that
\* of the same file without such blocks.
C5_ShortFacetDropped ==
    (origin.kind = "text" /\ AllFacets(origin) /\ pc \in {"read", "loaded", "exit"}) =>
        /\ fmt = "ASCII"
        /\ uncaught = "none"
        /\ pc # "read" => triangles = CompleteFacets(origin.items)

C5_Witness ==
    /\ origin.kind = "text"
    /\ AllFacets(origin)
    /\ pc = "loaded"
    /\ Len(origin.items) = 3
    /\ origin.items[1].k = 3
    /\ origin.items[2].k = 2
    /\ origin.items[3].k = 3
    /\ Len(triangles) = 2

FacetNormalLines(f) ==
    LET lines == ReadLines(f)
    IN  Cardinality({i \in 1..Len(lines) : StartsWith(Strip(lines[i]), KwFacetNormal)})

\* C6: the text parser never returns more triangles than the file has
\* "facet normal" lines (an endfacet without a normal of its own adds nothing).
C6_NoTriangleWithoutNormal ==
    (Parsed /\ fmt = "ASCII") => Len(triangles) <= FacetNormalLines(file)

NormalZ(i) == triangles[i][1][3]

\* C7: the four normal classes partition the triangles of a non-empty mesh:
\* each count is the number of triangles its test selects, the tests select
\* disjoint sets, and the counts add up to the number of triangles.
C7_NormalClassesPartition ==
    report # None =>
        LET n   == Len(triangles)
            top == {i \in 1..n : 10 * NormalZ(i) > 9 * Scale}
            bot == {i \in 1..n : 10 * NormalZ(i) < -9 * Scale}
            ver == {i \in 1..n : 10 * NormalZ(i) > -Scale /\ 10 * NormalZ(i) < Scale}
        IN  /\ top \cap bot = {} /\ top \cap ver = {} /\ bot \cap ver = {}
            /\ report.top = Cardinality(top)
            /\ report.bottom = Cardinality(bot)
            /\ report.vertical = Cardinality(ver)
            /\ report.angled = n - Cardinality(top \cup bot \cup ver)
            /\ report.top + report.bottom + report.vertical + report.angled = n

C7_Witness ==
    /\ report # None
    /\ report.top >= 1
    /\ report.angled >= 1
    /\ report.n = 2

\* each entry is at least as high as the one printed before it
Ascending(hs) == \A i \in 1..(Len(hs) - 1) : hs[i] <= hs[i + 1]

\* the heights a section prints, in the order printed
SliceHeights == [i \in 1..Len(report.slices) |-> report.slices[i][1]]

AsciiHeights == [i \in 1..Len(report.ascii) |-> report.ascii[i][1]]

FloorHeights == [i \in 1..Len(report.floors) |-> report.floors[i][1]]

CeilingHeights == [i \in 1..Len(report.ceilings) |-> report.ceilings[i][1]]

PocketHeights ==
    LET found == SelectSeq(report.pockets, LAMBDA e : e[2] # None)
    IN  [i \in 1..Len(found) |-> found[i][1]]

SlicesAscending == report # None => Ascending(SliceHeights)

AsciiAscending == report # None => Ascending(AsciiHeights)

SurfacesAscending ==
    report # None => Ascending(FloorHeights) /\ Ascending(CeilingHeights)

PocketsAscending == report # None => Ascending(PocketHeights)

\* C11: in every report each per-height section (cross-section table, ASCII
\* cross-sections, floor surfaces, ceiling surfaces, pocket detection) prints
\* its entries in ascending order of height, whatever the mesh and however
\* small its height range.
C11_SectionsAscending ==
    /\ SlicesAscending
    /\ AsciiAscending
    /\ SurfacesAscending
    /\ PocketsAscending

----------------------------------------------------------------------------
(* The analysis functions on their own: analyze_slice, detect_pockets and the
   recommendation, each applied to arguments drawn from the sets below *)

MaxNear == 11

MaxMid == 2

MaxHole == 3

MaxThick == 2

\* pad a vertex list with far-away vertices up to whole triangles
Padded(vs, far) ==
    vs \o [i \in 1..((3 - (Len(vs) % 3)) % 3) |-> far]

SlabOrigins ==
    { [kind |-> "slab", near |-> n, mid |-> m, dz |-> d, same |-> sm] :
        n \in 0..MaxNear, m \in 0..MaxMid,
        d \in {0, SliceTolerance - 1, 1 - SliceTolerance}, sm \in BOOLEAN }

\* near vertices inside the slice slab, mid vertices exactly SliceTolerance
\* above the target (outside the slice slab, inside the pocket slab)
SlabVerts(o, zt) ==
    Padded(<< <<0, 0, zt + 5 * Scale>>, <<0, 0, zt + 5 * Scale>>, <<0, 0, zt - 5 * Scale>> >>
           \o [i \in 1..o.near |->
                 IF o.same THEN <<Scale, Scale, zt + o.dz>>
                 ELSE <<(i % 4) * Scale, (i \div 4) * Scale, zt + o.dz>>]
           \o [j \in 1..o.mid |-> <<j * Scale, 0, zt + SliceTolerance>>],
           <<0, 0, zt + 5 * Scale>>)

RingOrigins ==
    { [kind |-> "ring", a |-> a, b |-> b, t |-> t, per |-> p, spread |-> sp, at |-> ox] :
        a \in 1..MaxHole, b \in 1..MaxHole, t \in 1..MaxThick,
        p \in {3, 4}, sp \in BOOLEAN, ox \in {0, 1} }

\* where in its cell the k-th point of a ring cell lies
InCell(sp, k) ==
    IF ~sp THEN <<0, 0>>
    ELSE CASE k = 1 -> <<0, GridSize - 1>>
           [] k = 2 -> <<GridSize - 1, 0>>
           [] k = 3 -> <<GridSize \div 2, GridSize \div 2>>
           [] OTHER -> <<GridSize - 1, GridSize - 1>>

\* the cells of the annulus, row by row: an (a + 2t) x (b + 2t) block of cells
\* placed o.at cells from the mesh minimum, without its a x b centre
RingCells(o) ==
    LET w == o.a + 2 * o.t
        h == o.b + 2 * o.t
        all == [i \in 1..(w * h) |-> <<(i - 1) % w, (i - 1) \div w>>]
        inHole(c) == /\ c[1] >= o.t /\ c[1] < o.t + o.a
                     /\ c[2] >= o.t /\ c[2] < o.t + o.b
        ring == SelectSeq(all, LAMBDA c : ~inHole(c))
    IN  [i \in 1..Len(ring) |-> <<ring[i][1] + o.at, ring[i][2] + o.at>>]

RingVerts(o, mn, zt) ==
    LET cells == RingCells(o)
        pts(c) == [k \in 1..o.per |->
                      <<mn[1] + c[1] * GridSize + InCell(o.spread, k)[1],
                        mn[2] + c[2] * GridSize + InCell(o.spread, k)[2], zt>>]
        anchor == <<mn[1], mn[2], zt + 5 * Scale>>
    IN  Padded(<<anchor, anchor, anchor>> \o Concat([i \in 1..Len(cells) |-> pts(cells[i])]),
               anchor)

MaxHits == 4

\* the eight cells around a cell, as offsets
Around == ({-1, 0, 1} \X {-1, 0, 1}) \ {<<0, 0>>}

\* a 3 x 3 block of cells: own points in the centre cell, hits points in each
\* cell of dense, sparse points in each other cell around the centre
BlockOrigins ==
    { [kind |-> "block", dense |-> ds, hits |-> h, sparse |-> sp, own |-> c] :
        ds \in SUBSET Around, h \in DenseHits..MaxHits,
        sp \in 0..(DenseHits - 1), c \in 0..DenseHits }

\* the block's points, its centre two cells from the mesh minimum mn
BlockVerts(o, mn, zt) ==
    LET cells == [i \in 1..9 |-> <<((i - 1) % 3) - 1, ((i - 1) \div 3) - 1>>]
        n(c) == IF c = <<0, 0>> THEN o.own
                ELSE IF c \in o.dense THEN o.hits ELSE o.sparse
        pts(c) == [k \in 1..n(c) |->
                      <<mn[1] + (c[1] + 2) * GridSize + InCell(TRUE, k)[1],
                        mn[2] + (c[2] + 2) * GridSize + InCell(TRUE, k)[2], zt>>]
        anchor == <<mn[1], mn[2], zt + 5 * Scale>>
    IN  Padded(<<anchor, anchor, anchor>> \o Concat([i \in 1..9 |-> pts(cells[i])]),
               anchor)

RecOrigins ==
    { [kind |-> "rec", n |-> n, flat |-> f * (Scale \div 1000), curve |-> c * (Scale \div 1000)] :
        n \in {1, 300, 400, 499, 500, 501, 1000, 1001, 1200, 60000},
        f \in {0, 10000, 60000, 80000, 80001, 85000, 100000},
        c \in {0, 2000, 5000, 20000, 30000, 30001, 40000, 100000} }

\* the arguments analyze passes: the vertex list, the mesh minimum, a height
CallOf(o) ==
    CASE o.kind = "slab" ->
           LET vs == SlabVerts(o, Scale)
           IN  [all_verts |-> vs, min_x |-> SetMin(Coord(vs, 1)),
                min_y |-> SetMin(Coord(vs, 2)), z |-> Scale]
      [] o.kind = "ring" ->
           LET vs == RingVerts(o, <<-Scale, 3 * Scale>>, 2 * Scale)
           IN  [all_verts |-> vs, min_x |-> SetMin(Coord(vs, 1)),
                min_y |-> SetMin(Coord(vs, 2)), z |-> 2 * Scale]
      [] o.kind = "block" ->
           LET vs == BlockVerts(o, <<-Scale, 3 * Scale>>, 2 * Scale)
           IN  [all_verts |-> vs, min_x |-> SetMin(Coord(vs, 1)),
                min_y |-> SetMin(Coord(vs, 2)), z |-> 2 * Scale]
      [] OTHER -> [n |-> o.n, flat_vertical_pct |-> o.flat, curve_pct |-> o.curve]

FnInit ==
    /\ origin \in SlabOrigins \cup RingOrigins \cup BlockOrigins \cup RecOrigins
    /\ call = CallOf(origin)
    /\ ret = None
    /\ pc = "call"
    /\ exists = TRUE
    /\ file = <<>>
    /\ fmt = ""
    /\ triangles = <<>>
    /\ uncaught = "none"
    /\ stdout = <<>>
    /\ exitCode = -1
    /\ report = None

Slice ==
    /\ pc = "call"
    /\ origin.kind \in {"slab", "ring", "block"}
    /\ ret' = analyze_slice(call.all_verts, call.z, SliceTolerance)
    /\ pc' = "sliced"
    /\ UNCHANGED <<exists, file, fmt, triangles, uncaught, stdout, exitCode, report, call, origin>>

Pockets ==
    /\ pc = "call"
    /\ origin.kind \in {"slab", "ring", "block"}
    /\ ret' = detect_pockets(call.all_verts, call.min_x, call.min_y, call.z,
                             PocketTolerance, GridSize)
    /\ pc' = "pocketed"
    /\ UNCHANGED <<exists, file, fmt, triangles, uncaught, stdout, exitCode, report, call, origin>>

Recommendation ==
    /\ pc = "call"
    /\ origin.kind = "rec"
    /\ ret' = Recommend(call.n, call.flat_vertical_pct, call.curve_pct)
    /\ pc' = "recommended"
    /\ UNCHANGED <<exists, file, fmt, triangles, uncaught, stdout, exitCode, report, call, origin>>

FnNext == Slice \/ Pockets \/ Recommendation

FnSpec == FnInit /\ [][FnNext]_vars

----------------------------------------------------------------------------
(* Claims about the analysis functions *)

\* the vertices of the call within tol of its height, each list entry counted
Qualifying(tol) ==
    Cardinality({i \in 1..Len(call.all_verts) : Abs(call.all_verts[i][3] - call.z) < tol})

\* C8: analyze_slice returns a result exactly when at least 10 vertices lie
\* within its tolerance (0.25) of the height, repeated vertices counted each
\* time, and detect_pockets reports nothing when fewer than 10 lie within its
\* tolerance (0.3).
C8_SlabThreshold ==
    /\ pc = "sliced" =>
          /\ ret # None <=> Qualifying(Scale \div 4) >= 10
          /\ ret # None => ret.verts = Qualifying(Scale \div 4)
    /\ pc = "pocketed" =>
          (Qualifying((3 * Scale) \div 10) < 10 => ret = None)

C8_Witness ==
    /\ pc = "sliced"
    /\ origin.kind = "slab"
    /\ origin.same
    /\ Qualifying(Scale \div 4) = 10
    /\ ret # None
    /\ ret.width = 0

\* C9: the recommendation depends on (triangle count, flat/vertical percentage,
\* curved percentage) only and is one of three, by precedence: count < 500 and
\* flat/vertical > 80 gives manual parametric; otherwise count > 1000 or curved
\* > 30 gives polyhedron; otherwise sliced cross-section.  The three examples
\* of the claim come out as stated.
C9_RecommendationPrecedence ==
    pc = "recommended" =>
        LET n      == call.n
            flat   == call.flat_vertical_pct
            curve  == call.curve_pct
            manual == n < 500 /\ flat > 80 * Scale
            poly   == ~manual /\ (n > 1000 \/ curve > 30 * Scale)
        IN  /\ ret \in {"manual parametric", "polyhedron", "sliced cross-section"}
            /\ ret = "manual parametric" <=> manual
            /\ ret = "polyhedron" <=> poly
            /\ ret = "sliced cross-section" <=> (~manual /\ ~poly)
            /\ (n = 300 /\ flat = 60 * Scale /\ curve = 20 * Scale) =>
                   ret = "sliced cross-section"
            /\ (n = 1200 /\ flat = 10 * Scale /\ curve = 5 * Scale) => ret = "polyhedron"
            /\ (n = 400 /\ flat = 85 * Scale /\ curve = 2 * Scale) =>
                   ret = "manual parametric"

C9_Witness ==
    /\ pc = "recommended"
    /\ call.n = 400
    /\ call.flat_vertical_pct = 85 * Scale
    /\ call.curve_pct = 40 * Scale
    /\ ret = "manual parametric"

\* C10: on a dense annulus of cells (3 points or more in every ring cell, none
\* in the a x b centre, all in one slab, cell size 2.0) detect_pockets reports
\* a pocket of at least one cell whose width and height are within one cell
\* size of the centre's extents a * 2.0 and b * 2.0.
C10_RingPocket ==
    (pc = "pocketed" /\ origin.kind = "ring") =>
        /\ ret # None
        /\ ret.count > 0
        /\ Abs(ret.width - origin.a * 2 * Scale) <= 2 * Scale
        /\ Abs(ret.height - origin.b * 2 * Scale) <= 2 * Scale

C10_Witness ==
    /\ pc = "pocketed"
    /\ origin.kind = "ring"
    /\ origin.a = 3
    /\ origin.b = 2
    /\ ret # None
    /\ ret.count = 4
    /\ ret.width = 4 * Scale
    /\ ret.height = 2 * Scale

\* the points of the call within the pocket tolerance of its height
PocketSlab == {i \in 1..Len(call.all_verts) :
                  Abs(call.all_verts[i][3] - call.z) < (3 * Scale) \div 10}

\* the 2.0-wide cell a point of the call falls in, counted from the mesh minimum
CellOf(i) ==
    <<(call.all_verts[i][1] - call.min_x) \div (2 * Scale),
      (call.all_verts[i][2] - call.min_y) \div (2 * Scale)>>

\* the slab's points, each with the cell it falls in
SlabCells == {<<i, CellOf(i)>> : i \in PocketSlab}

\* the inclusive rectangle of cells spanning the occupied ones, widened by k
CellRange(pts, k) ==
    ((SetMin({p[2][1] : p \in pts}) - k)..(SetMax({p[2][1] : p \in pts}) + k))
        \X ((SetMin({p[2][2] : p \in pts}) - k)..(SetMax({p[2][2] : p \in pts}) + k))

\* the number of slab points in cell c, 0 for a cell that holds none
Hits(pts, c) == Cardinality({p \in pts : p[2] = c})

\* how many of the 8 cells around c hold 3 points or more
DenseAround(pts, c) ==
    Cardinality({d \in Around : Hits(pts, <<c[1] + d[1], c[2] + d[2]>>) >= 3})

\* the cells the claim calls candidates, sought one cell beyond the range too
Candidates(pts) ==
    {c \in CellRange(pts, 1) : Hits(pts, c) < 3 /\ DenseAround(pts, c) >= 4}

\* C12: in detect_pockets a cell of the inclusive rectangle spanning the
\* occupied cells is an empty-interior candidate exactly when it holds fewer
\* than 3 points (or none) and at least 4 of the 8 cells around it hold 3 or
\* more; the cell never counts towards its own neighbours, and no cell
\* outside the rectangle is a candidate.  The returned count and extents are
\* those of exactly these cells.
C12_CandidateCells ==
    (pc = "pocketed" /\ Cardinality(PocketSlab) >= 10) =>
        \A pts \in {SlabCells} : \A expected \in {Candidates(pts)} :
            LET slab     == InSlab(call.all_verts, call.z, PocketTolerance)
                verts_2d == [i \in 1..Len(slab) |->
                                <<slab[i][1] - call.min_x, slab[i][2] - call.min_y>>]
                cx       == {c[1] * 2 * Scale + Scale : c \in expected}
                cy       == {c[2] * 2 * Scale + Scale : c \in expected}
            IN  \A grid \in {Grid(verts_2d, GridSize)} :
                    /\ EmptyInterior(grid) = expected
                    /\ expected \subseteq CellRange(pts, 0)
                    /\ \A c \in expected :
                           DenseNeighbors(grid, c[1], c[2]) = DenseAround(pts, c)
                    /\ ret = None <=> expected = {}
                    /\ ret # None =>
                           /\ ret.count = Cardinality(expected)
                           /\ ret.x_range = <<SetMin(cx), SetMax(cx)>>
                           /\ ret.y_range = <<SetMin(cy), SetMax(cy)>>

C12_Witness ==
    /\ pc = "pocketed"
    /\ origin.kind = "block"
    /\ origin.own = 2
    /\ origin.sparse = 2
    /\ Cardinality(origin.dense) = 4
    /\ ret # None
    /\ ret.count >= 2
    /\ <<2, 2>> \in Candidates(SlabCells)

====
